---------------------------- MODULE Spec2Model ----------------------------
(***************************************************************************)
(* Model of backend/app.py: the Flask ASR backend.                         *)
(*                                                                         *)
(* Strings are sequences of one-character strings, so that splitext,       *)
(* lower, split, join, strip and path concatenation are computed the way   *)
(* the Python code computes them.  Python's None is the one-element tuple  *)
(* <<"None">>, which no character string equals.                           *)
(*                                                                         *)
(* The development server (app.run) serves each request in its own thread, *)
(* so every upload request is a process with its own position in upload(); *)
(* the steps are cut where the handler calls out (file system, ffmpeg,     *)
(* model) or reads/writes the global _model; the read of _model at the     *)
(* end of get_model and the transcription that follows are one step.       *)
(***************************************************************************)
EXTENDS Integers, Sequences, FiniteSets, TLC

\* ------------------------------------------------------------------ bounds
\* Number of upload requests of a run (all may be in flight together).
MaxRequests == 2
\* Width of a job id in the model (str(uuid.uuid4()) has fixed width 36).
UuidLen == 2

\* ------------------------------------------------------------- strings
None == <<"None">>

UPLOAD_DIR == <<"u","p","l","o","a","d","s">>
RESULT_DIR == <<"r","e","s","u","l","t","s">>
DefaultAllowedExt ==
    <<".","m","p","3", ",", ".","w","a","v", ",", ".","m","4","a", ",",
      ".","f","l","a","c", ",", ".","m","p","4", ",", ".","m","o","v", ",",
      ".","m","k","v">>
MODEL_SIZE == <<"s","m","a","l","l">>

\* str.lower() on the characters that occur in the model
LowerChar(c) ==
    CASE c = "A" -> "a" [] c = "M" -> "m" [] c = "O" -> "o" [] c = "P" -> "p"
      [] c = "V" -> "v" [] c = "W" -> "w" [] OTHER -> c

Lower(s) == [i \in 1..Len(s) |-> LowerChar(s[i])]

\* s[:n]
Take(s, n) == IF Len(s) <= n THEN s ELSE SubSeq(s, 1, n)

\* s[n:] with n a 0-based index
Drop(s, n) == IF n >= Len(s) THEN <<>> ELSE SubSeq(s, n + 1, Len(s))

\* str.rfind(c) + 1: the 1-based position of the last c, 0 when there is none
RFind(s, c) ==
    LET hits == {i \in 1..Len(s) : s[i] = c}
    IN  IF hits = {} THEN 0 ELSE CHOOSE i \in hits : \A j \in hits : j <= i

\* str.split(sep) for a one-character separator, as a sequence of strings
RECURSIVE SplitFrom(_, _, _, _)
SplitFrom(s, sep, i, cur) ==
    IF i > Len(s) THEN <<cur>>
    ELSE IF s[i] = sep THEN <<cur>> \o SplitFrom(s, sep, i + 1, <<>>)
    ELSE SplitFrom(s, sep, i + 1, Append(cur, s[i]))

Split(s, sep) == SplitFrom(s, sep, 1, <<>>)

Range(q) == {q[i] : i \in 1..Len(q)}

ALLOWED_EXT == Range(Split(DefaultAllowedExt, ","))

\* os.path.splitext (posixpath: sep "/", no altsep, extsep "."): the extension
\* starts at the last dot of the last path component, unless that component
\* has only dots before it.
SplitExt(p) ==
    LET sepIndex == RFind(p, "/")
        dotIndex == RFind(p, ".")
    IN  IF dotIndex > sepIndex
           /\ \E k \in (sepIndex + 1)..(dotIndex - 1) : p[k] # "."
        THEN <<SubSeq(p, 1, dotIndex - 1), SubSeq(p, dotIndex, Len(p))>>
        ELSE <<p, <<>>>>

\* os.path.basename
Basename(p) == Drop(p, RFind(p, "/"))

\* os.path.join(dir, name) for a relative name
PathJoin(dir, name) ==
    IF dir # <<>> /\ dir[Len(dir)] = "/" THEN dir \o name
    ELSE dir \o <<"/">> \o name

\* str.strip() (blanks only occur as " " in the model)
RECURSIVE Strip(_)
Strip(s) ==
    IF s = <<>> THEN s
    ELSE IF Head(s) = " " THEN Strip(Tail(s))
    ELSE IF s[Len(s)] = " " THEN Strip(SubSeq(s, 1, Len(s) - 1))
    ELSE s

\* " ".join(parts)
RECURSIVE JoinSp(_)
JoinSp(parts) ==
    IF parts = <<>> THEN <<>>
    ELSE IF Len(parts) = 1 THEN parts[1]
    ELSE parts[1] \o <<" ">> \o JoinSp(Tail(parts))

VideoExts ==
    { <<".","m","p","4">>, <<".","m","o","v">>, <<".","m","k","v">>,
      <<".","a","v","i">>, <<".","w","m","v">>, <<".","m","4","v">> }

is_video(ext) == Lower(ext) \in VideoExts

Getattr(obj, name, default) == IF name \in DOMAIN obj THEN obj[name] ELSE default

\* ------------------------------------------------------------- inputs
\* request.form: a field is absent (None) or a string
Forms ==
    { [language |-> None, task |-> None],
      [language |-> <<"e","n">>, task |-> <<"t","r","a","n","s","l","a","t","e">>] }

\* uploads that upload() rejects: filenames whose extension is not allowed
\* (none at all, or a video extension outside ALLOWED_EXT), each with every
\* form; no file part; a file part without a filename; a dot-file
RejectedUploads ==
    {[file |-> f, form |-> fm] :
        f \in {<<"n","o","e","x","t">>, <<"x",".","A","V","I">>}, fm \in Forms}
    \cup { [file |-> None, form |-> [language |-> None, task |-> None]],
           [file |-> <<>>,
            form |-> [language |-> <<"e","n">>,
                      task |-> <<"t","r","a","n","s","l","a","t","e">>]],
           [file |-> <<".","m","p","3">>, form |-> [language |-> None, task |-> None]] }

\* uploads that upload() accepts, each with the form it is sent with
AcceptedUploads ==
    { [file |-> <<"b",".","w","a","v">>,
       form |-> [language |-> <<>>, task |-> <<"t","r","a","n","s","l","a","t","e">>]],
      [file |-> <<"c",".","d",".","M","O","V">>,
       form |-> [language |-> None, task |-> None]] }

Uploads == RejectedUploads \cup AcceptedUploads

\* what ffmpeg may leave on stderr when it exits non-zero
StderrLimit == 500
FfmpegFailures ==
    { [stderr |-> <<"e","r","r">>, created |-> FALSE],
      [stderr |-> [i \in 1..(StderrLimit + 1) |-> "x"], created |-> TRUE] }

\* what model.transcribe may return: (segments, info)
Transcripts ==
    { [segments |-> << [start |-> 0, end |-> 1, text |-> <<" ","h","i">>],
                       [start |-> 1, end |-> 2, text |-> <<"y","o"," ">>] >>,
       info |-> [duration |-> 2, language |-> <<"e","n">>]] }

\* ------------------------------------------------------------- state
VARIABLES
    _model,       \* the global model handle: None or <<"WhisperModel", n>>
    constructed,  \* how many WhisperModel objects have been constructed
    issued,       \* how many uuid4 values have been drawn
    fs,           \* the file system: path -> [kind, data, complete]
    req,          \* the upload requests, each a thread in upload()
    health        \* the responses GET /healthz has given: <<>> or <<the body>>

vars == <<_model, constructed, issued, fs, req, health>>

Requests == 1..MaxRequests

HexDigits == <<"0","1","2","3","4","5","6","7","8","9","a","b","c","d","e","f">>

RECURSIVE Pow16(_)
Pow16(k) == IF k = 0 THEN 1 ELSE 16 * Pow16(k - 1)

\* str(uuid.uuid4()): a fixed-width string of hex digits; the n-th draw is
\* modelled as the n-th value, i.e. draws are assumed not to repeat
Uuid4(n) ==
    [i \in 1..UuidLen |-> HexDigits[((n \div Pow16(UuidLen - i)) % 16) + 1]]

IdleRequest ==
    [pc |-> "idle", file |-> None, form |-> [language |-> None, task |-> None],
     language |-> None, task |-> None, ext |-> None, job_id |-> None,
     src_path |-> None, audio_path |-> None, out_path |-> None,
     built |-> None, model |-> None, result |-> None, exc |-> None,
     responses |-> <<>>, trace |-> <<>>, touched |-> {}]

Init ==
    /\ _model = None
    /\ constructed = 0
    /\ issued = 0
    /\ fs = <<>>
    /\ req = [r \in Requests |-> IdleRequest]
    /\ health = <<>>

\* ------------------------------------------------------------- helpers
\* jsonify(body), code
Jsonify(body, code) == [by |-> "handler", code |-> code, body |-> body]

\* an exception that leaves upload(): Flask answers 500 itself
Unhandled(e) == [by |-> "framework", code |-> 500, body |-> [exception |-> e]]

FsWrite(files, path, content) ==
    [p \in DOMAIN files \cup {path} |-> IF p = path THEN content ELSE files[p]]

\* request.form.get("language") or None
FormLanguage(form) == IF form.language = <<>> THEN None ELSE form.language

\* request.form.get("task", "transcribe")
FormTask(form) ==
    IF form.task = None THEN <<"t","r","a","n","s","c","r","i","b","e">>
    ELSE form.task

\* not f: no file part, or a FileStorage without a filename
NoFile(f) == f = None \/ f = <<>>

\* a slip: the extension taken as the last four characters of the filename
UploadExtLastFour(f) == Lower(Drop(f, IF Len(f) > 4 THEN Len(f) - 4 ELSE 0))

UploadExt(f) == Lower(SplitExt(f)[2])

\* the handler returns (or is left by an exception): the response is
\* recorded; the locals model and result end with the call, the job's id,
\* extension and paths are kept as the record of the request
Respond(rq, response, step) ==
    [rq EXCEPT !.pc = "done",
               !.responses = Append(@, response),
               !.trace = Append(@, step),
               !.model = None,
               !.result = None]

\* the request r may arrive: requests are numbered in order of arrival
MayArrive(r) ==
    /\ req[r].pc = "idle"
    /\ IF r = 1 THEN TRUE ELSE req[r - 1].pc # "idle"

\* ------------------------------------------------------------- healthz
HealthzBody == [ok |-> TRUE, service |-> "asr-backend"]

\* a slip: the health check loads the model eagerly
HealthzLoadsModel ==
    /\ health' = <<HealthzBody>>
    /\ _model' = IF _model = None THEN <<"WhisperModel", constructed + 1>> ELSE _model
    /\ constructed' = IF _model = None THEN constructed + 1 ELSE constructed
    /\ UNCHANGED <<issued, fs, req>>

Healthz ==
    /\ health' = <<HealthzBody>>
    /\ UNCHANGED <<_model, constructed, issued, fs, req>>

\* ------------------------------------------------------------- upload
\* lines 47-52: no file
UploadNoFile(r) ==
    /\ MayArrive(r)
    /\ \E u \in Uploads :
          /\ NoFile(u.file)
          /\ req' = [req EXCEPT ![r] =
                Respond([@ EXCEPT !.file = u.file, !.form = u.form,
                                  !.language = FormLanguage(u.form),
                                  !.task = FormTask(u.form),
                                  !.trace = Append(@, "validate")],
                        Jsonify([error |-> <<"file is required">>], 400),
                        "respond")]
    /\ UNCHANGED <<_model, constructed, issued, fs, health>>

\* lines 47-56: extension not allowed
UploadBadExt(r) ==
    /\ MayArrive(r)
    /\ \E u \in Uploads :
          /\ ~NoFile(u.file)
          /\ UploadExt(u.file) \notin ALLOWED_EXT
          /\ req' = [req EXCEPT ![r] =
                Respond([@ EXCEPT !.file = u.file, !.form = u.form,
                                  !.language = FormLanguage(u.form),
                                  !.task = FormTask(u.form),
                                  !.ext = UploadExt(u.file),
                                  !.trace = Append(@, "validate")],
                        Jsonify([error |-> <<"extension ">> \o UploadExt(u.file)
                                              \o <<" not allowed">>], 400),
                        "respond")]
    /\ UNCHANGED <<_model, constructed, issued, fs, health>>

\* lines 47-59: the upload is accepted, job_id and src_path are chosen
UploadAccept(r) ==
    /\ MayArrive(r)
    /\ \E u \in Uploads :
          /\ ~NoFile(u.file)
          /\ UploadExt(u.file) \in ALLOWED_EXT
          /\ LET job == Uuid4(issued)
             IN  req' = [req EXCEPT ![r] =
                    [@ EXCEPT !.pc = "save", !.file = u.file, !.form = u.form,
                              !.language = FormLanguage(u.form),
                              !.task = FormTask(u.form),
                              !.ext = UploadExt(u.file),
                              !.job_id = job,
                              !.src_path =
                                  PathJoin(UPLOAD_DIR, job \o UploadExt(u.file)),
                              !.trace = Append(@, "validate")]]
    /\ issued' = issued + 1
    /\ UNCHANGED <<_model, constructed, fs, health>>


\* a slip: the video branch is skipped
UploadSaveNoExtract(r) ==
    /\ req[r].pc = "save"
    /\ fs' = FsWrite(fs, req[r].src_path,
                     [kind |-> "upload", data |-> req[r].file, complete |-> TRUE])
    /\ req' = [req EXCEPT ![r] =
          [@ EXCEPT !.pc = "get_model",
                    !.audio_path = req[r].src_path,
                    !.touched = @ \cup {req[r].src_path},
                    !.trace = Append(@, "save")]]
    /\ UNCHANGED <<_model, constructed, issued, health>>

\* line 60: f.save(src_path)
UploadSave(r) ==
    /\ req[r].pc = "save"
    /\ fs' = FsWrite(fs, req[r].src_path,
                     [kind |-> "upload", data |-> req[r].file, complete |-> TRUE])
    /\ req' = [req EXCEPT ![r] =
          [@ EXCEPT !.pc = IF is_video(req[r].ext) THEN "extract" ELSE "get_model",
                    !.audio_path = req[r].src_path,
                    !.touched = @ \cup {req[r].src_path},
                    !.trace = Append(@, "save")]]
    /\ UNCHANGED <<_model, constructed, issued, health>>

\* line 60 raises (disk full, directory gone): nothing in upload() catches
\* it; the file may or may not have been created
UploadSaveFails(r) ==
    /\ req[r].pc = "save"
    /\ \E created \in BOOLEAN :
          /\ fs' = IF created
                   THEN FsWrite(fs, req[r].src_path,
                                [kind |-> "upload", data |-> <<>>, complete |-> FALSE])
                   ELSE fs
          /\ req' = [req EXCEPT ![r] =
                Respond([@ EXCEPT !.exc = <<"OSError: save">>,
                                  !.touched = IF created THEN @ \cup {req[r].src_path}
                                              ELSE @,
                                  !.trace = Append(@, "save")],
                        Unhandled(<<"OSError: save">>), "abort")]
    /\ UNCHANGED <<_model, constructed, issued, health>>

\* a slip: the audio path derived from the client's filename, as
\* transcribe_file does (line 103), instead of from job_id
WavPathFromFilename(rq) ==
    PathJoin(UPLOAD_DIR, SplitExt(rq.file)[1] \o <<".","w","a","v">>)

\* line 65
WavPath(rq) == PathJoin(UPLOAD_DIR, rq.job_id \o <<".","w","a","v">>)

\* line 39: the message of the RuntimeError
FfmpegError(stderr) == <<"ffmpeg failed: ">> \o Take(stderr, StderrLimit)

\* a slip: the handler reports a fixed text instead of str(e)
ExtractionFailedNoMessage(e) ==
    Jsonify([error |-> <<"audio extraction failed">>, detail |-> <<"ffmpeg failed">>], 500)

\* line 69
ExtractionFailed(e) ==
    Jsonify([error |-> <<"audio extraction failed">>, detail |-> e], 500)

\* lines 65-67, ffmpeg exits 0: out_path now holds the audio
UploadExtract(r) ==
    /\ req[r].pc = "extract"
    /\ fs' = FsWrite(fs, WavPath(req[r]),
                     [kind |-> "audio", data |-> req[r].src_path, complete |-> TRUE])
    /\ req' = [req EXCEPT ![r] =
          [@ EXCEPT !.pc = "get_model",
                    !.audio_path = WavPath(req[r]),
                    !.touched = @ \cup {WavPath(req[r])},
                    !.trace = Append(@, "ffmpeg")]]
    /\ UNCHANGED <<_model, constructed, issued, health>>

\* lines 65-69, ffmpeg exits non-zero: ffmpeg_extract_audio raises, the
\* handler answers 500; ffmpeg may leave an incomplete output file
UploadExtractFails(r) ==
    /\ req[r].pc = "extract"
    /\ \E fail \in FfmpegFailures :
          /\ fs' = IF fail.created
                   THEN FsWrite(fs, WavPath(req[r]),
                                [kind |-> "audio", data |-> <<>>, complete |-> FALSE])
                   ELSE fs
          /\ req' = [req EXCEPT ![r] =
                Respond([@ EXCEPT !.audio_path = WavPath(req[r]),
                                  !.exc = FfmpegError(fail.stderr),
                                  !.touched = IF fail.created THEN @ \cup {WavPath(req[r])}
                                              ELSE @,
                                  !.trace = Append(@, "ffmpeg")],
                        ExtractionFailed(FfmpegError(fail.stderr)), "respond")]
    /\ UNCHANGED <<_model, constructed, issued, health>>

\* lines 37, 68-69: subprocess.run itself raises (no ffmpeg executable)
UploadExtractNoTool(r) ==
    /\ req[r].pc = "extract"
    /\ req' = [req EXCEPT ![r] =
          Respond([@ EXCEPT !.audio_path = WavPath(req[r]),
                            !.exc = <<"FileNotFoundError: ffmpeg">>,
                            !.trace = Append(@, "ffmpeg")],
                  ExtractionFailed(<<"FileNotFoundError: ffmpeg">>), "respond")]
    /\ UNCHANGED <<_model, constructed, issued, fs, health>>

\* line 97
TranscriptionFailed(e) ==
    Jsonify([error |-> <<"transcription failed">>, detail |-> e], 500)

\* a slip: the except clause re-raises instead of answering
CaughtReraises(rq, e, step) ==
    Respond([rq EXCEPT !.exc = e, !.trace = Append(@, step)],
            Unhandled(e), "abort")

\* lines 96-97: an exception inside the try block ends the request
Caught(rq, e, step) ==
    Respond([rq EXCEPT !.exc = e, !.trace = Append(@, step)],
            TranscriptionFailed(e), "respond")

\* line 23, _model is None: the caller goes on to construct the model
GetModelMiss(r) ==
    /\ req[r].pc = "get_model"
    /\ _model = None
    /\ req' = [req EXCEPT ![r] = [@ EXCEPT !.pc = "construct",
                                          !.trace = Append(@, "get_model")]]
    /\ UNCHANGED <<_model, constructed, issued, fs, health>>

\* line 23, _model is set
GetModelHit(r) ==
    /\ req[r].pc = "get_model"
    /\ _model # None
    /\ req' = [req EXCEPT ![r] = [@ EXCEPT !.pc = "return",
                                          !.trace = Append(@, "get_model")]]
    /\ UNCHANGED <<_model, constructed, issued, fs, health>>

\* lines 24-27, right-hand side: WhisperModel(...) returns a new object
Construct(r) ==
    /\ req[r].pc = "construct"
    /\ constructed' = constructed + 1
    /\ req' = [req EXCEPT ![r] =
          [@ EXCEPT !.pc = "store",
                    !.built = <<"WhisperModel", constructed + 1>>]]
    /\ UNCHANGED <<_model, issued, fs, health>>

\* a slip: the failure is remembered in the global
ConstructFailsPoisons(r) ==
    /\ req[r].pc = "construct"
    /\ _model' = <<"Failed">>
    /\ req' = [req EXCEPT ![r] = Caught(@, <<"model load error">>, "load")]
    /\ UNCHANGED <<constructed, issued, fs, health>>

\* lines 24-27 raise (import error, no such model, no device)
ConstructFails(r) ==
    /\ req[r].pc = "construct"
    /\ req' = [req EXCEPT ![r] = Caught(@, <<"model load error">>, "load")]
    /\ UNCHANGED <<_model, constructed, issued, fs, health>>

\* line 27, the assignment to the global
StoreModel(r) ==
    /\ req[r].pc = "store"
    /\ _model' = req[r].built
    /\ req' = [req EXCEPT ![r] = [@ EXCEPT !.pc = "return", !.built = None]]
    /\ UNCHANGED <<constructed, issued, fs, health>>

\* lines 75-89
BuildResult(rq, t) ==
    LET segs == [i \in 1..Len(t.segments) |->
                    [start |-> t.segments[i].start, end |-> t.segments[i].end,
                     text |-> t.segments[i].text]]
    IN  [duration_sec |-> Getattr(t.info, "duration", None),
         language |-> Getattr(t.info, "language", rq.language),
         segments |-> segs,
         text |-> JoinSp([i \in 1..Len(segs) |-> Strip(segs[i].text)]),
         meta |-> [source_filename |-> rq.file,
                   audio_path |-> Basename(rq.audio_path),
                   model |-> MODEL_SIZE,
                   task |-> rq.task]]

\* a slip: the result written beside the upload
ResultPathInUploads(rq) == PathJoin(UPLOAD_DIR, rq.job_id \o <<".","j","s","o","n">>)

\* line 91
ResultPath(rq) == PathJoin(RESULT_DIR, rq.job_id \o <<".","j","s","o","n">>)

\* lines 28, 73-91: get_model returns what the global holds now, the model
\* transcribes audio_path, the result is built
Transcribe(r) ==
    /\ req[r].pc = "return"
    /\ \E t \in Transcripts :
          req' = [req EXCEPT ![r] =
             [@ EXCEPT !.pc = "write",
                       !.model = _model,
                       !.result = BuildResult(req[r], t),
                       !.out_path = ResultPath(req[r]),
                       !.trace = Append(@, "transcribe")]]
    /\ UNCHANGED <<_model, constructed, issued, fs, health>>

\* lines 28, 73-75: get_model returns, then transcribing raises (unreadable
\* audio, decoding error)
TranscribeFails(r) ==
    /\ req[r].pc = "return"
    /\ req' = [req EXCEPT ![r] = Caught(@, <<"transcribe error">>, "transcribe")]
    /\ UNCHANGED <<_model, constructed, issued, fs, health>>

\* line 95
Done(rq) ==
    Jsonify([job_id |-> rq.job_id, status |-> "done", result |-> rq.result], 200)

\* lines 92-95: the result file is written, then the handler answers 200
WriteResult(r) ==
    /\ req[r].pc = "write"
    /\ fs' = FsWrite(fs, req[r].out_path,
                     [kind |-> "json", data |-> req[r].result, complete |-> TRUE])
    /\ req' = [req EXCEPT ![r] =
          Respond([@ EXCEPT !.touched = @ \cup {req[r].out_path},
                            !.trace = Append(@, "write")],
                  Done(req[r]), "respond")]
    /\ UNCHANGED <<_model, constructed, issued, health>>

\* line 92 raises: open(out_path, "w") fails, no file is created
WriteOpenFails(r) ==
    /\ req[r].pc = "write"
    /\ req' = [req EXCEPT ![r] = Caught(@, <<"OSError: open">>, "write")]
    /\ UNCHANGED <<_model, constructed, issued, fs, health>>

\* line 93 raises (or the close at the end of the with block): open() has
\* already created the file, which stays behind incomplete
WriteDumpFails(r) ==
    /\ req[r].pc = "write"
    /\ fs' = FsWrite(fs, req[r].out_path,
                     [kind |-> "json", data |-> <<>>, complete |-> FALSE])
    /\ req' = [req EXCEPT ![r] =
          Caught([@ EXCEPT !.touched = @ \cup {req[r].out_path}],
                 <<"OSError: write">>, "write")]
    /\ UNCHANGED <<_model, constructed, issued, health>>

Next ==
    \/ Healthz
    \/ \E r \in Requests : UploadNoFile(r)
    \/ \E r \in Requests : UploadBadExt(r)
    \/ \E r \in Requests : UploadAccept(r)
    \/ \E r \in Requests : UploadSave(r)
    \/ \E r \in Requests : UploadSaveFails(r)
    \/ \E r \in Requests : UploadExtract(r)
    \/ \E r \in Requests : UploadExtractFails(r)
    \/ \E r \in Requests : UploadExtractNoTool(r)
    \/ \E r \in Requests : GetModelMiss(r)
    \/ \E r \in Requests : GetModelHit(r)
    \/ \E r \in Requests : Construct(r)
    \/ \E r \in Requests : ConstructFails(r)
    \/ \E r \in Requests : StoreModel(r)
    \/ \E r \in Requests : Transcribe(r)
    \/ \E r \in Requests : TranscribeFails(r)
    \/ \E r \in Requests : WriteResult(r)
    \/ \E r \in Requests : WriteOpenFails(r)
    \/ \E r \in Requests : WriteDumpFails(r)

Spec == Init /\ [][Next]_vars

\* ------------------------------------------------------------- vocabulary
\* the steps of request r after its upload has been accepted
Step(r) ==
    \/ UploadSave(r) \/ UploadSaveFails(r)
    \/ UploadExtract(r) \/ UploadExtractFails(r) \/ UploadExtractNoTool(r)
    \/ GetModelMiss(r) \/ GetModelHit(r)
    \/ Construct(r) \/ ConstructFails(r) \/ StoreModel(r)
    \/ Transcribe(r) \/ TranscribeFails(r)
    \/ WriteResult(r) \/ WriteOpenFails(r) \/ WriteDumpFails(r)

Arrived(r) == req[r].pc # "idle"
Finished(r) == req[r].pc = "done"
\* the request carried a file with an allowed extension
Valid(r) == Arrived(r) /\ req[r].job_id # None
Response(r) == req[r].responses[1]

Is400(resp) ==
    resp.by = "handler" /\ resp.code = 400 /\ "error" \in DOMAIN resp.body

Is500(resp) ==
    resp.by = "handler" /\ resp.code = 500 /\ "error" \in DOMAIN resp.body

Is200(resp) ==
    /\ resp.by = "handler" /\ resp.code = 200
    /\ "status" \in DOMAIN resp.body
    /\ resp.body.status = "done"

Is500With(resp, error, detail) ==
    /\ Is500(resp)
    /\ resp.body.error = error
    /\ "detail" \in DOMAIN resp.body
    /\ resp.body.detail = detail

\* the step at which the request's exception was raised
FailedStep(r) == req[r].trace[Len(req[r].trace) - 1]
Failed(r, step) == Finished(r) /\ req[r].exc # None /\ FailedStep(r) = step

Did(r, step) == step \in Range(req[r].trace)

\* the paths of a job, written out from lines 59, 65 and 91
ExpectedSrc(r) == UPLOAD_DIR \o <<"/">> \o req[r].job_id \o req[r].ext
ExpectedWav(r) == UPLOAD_DIR \o <<"/">> \o req[r].job_id \o <<".","w","a","v">>
ExpectedOut(r) == RESULT_DIR \o <<"/">> \o req[r].job_id \o <<".","j","s","o","n">>
VideoRequest(r) ==
    req[r].ext \in { <<".","m","p","4">>, <<".","m","o","v">>, <<".","m","k","v">>,
                     <<".","a","v","i">>, <<".","w","m","v">>, <<".","m","4","v">> }

\* ------------------------------------------------------------- claims
\* C1: an upload request that carries a file whose lower-cased extension
\* (os.path.splitext of the filename) is not in ALLOWED_EXT -- a filename
\* without extension included -- is answered by the handler with 400 and an
\* 'error' field, whatever 'language' and 'task' are; nothing is saved.
C1_InvalidExtensionIs400 ==
    \A r \in Requests :
        (Arrived(r) /\ req[r].file # None
           /\ Lower(SplitExt(req[r].file)[2]) \notin ALLOWED_EXT)
        => /\ Finished(r)
           /\ Len(req[r].responses) = 1
           /\ Is400(Response(r))
           /\ req[r].touched = {}

\* a rejected file without extension, sent with language and task set
C1_Witness ==
    \E r \in Requests :
        /\ Finished(r)
        /\ req[r].file = <<"n","o","e","x","t">>
        /\ req[r].form.language = <<"e","n">>
        /\ req[r].form.task = <<"t","r","a","n","s","l","a","t","e">>
        /\ Is400(Response(r))

\* C2 as stated: a valid upload always ends with exactly one JSON response
\* of the handler itself, 200 'done' or 500 with 'error', whichever step
\* fails (saving the upload included).
C2_Original ==
    \A r \in Requests :
        (Valid(r) /\ Finished(r))
        => /\ Len(req[r].responses) = 1
           /\ Is200(Response(r)) \/ Is500(Response(r))

\* C2 amended: a valid upload never stops before its response (some step
\* of it is always enabled), and ends with exactly one response: the
\* handler's 200 'done' when no step raised, the handler's 500 with 'error'
\* when extraction, model load, transcription or the result write raised;
\* only an exception of f.save leaves the handler and is answered by Flask.
C2_ValidUploadResponds ==
    \A r \in Requests :
        Valid(r) =>
           IF Finished(r)
           THEN /\ Len(req[r].responses) = 1
                /\ Is200(Response(r)) <=> req[r].exc = None
                /\ \/ Is200(Response(r))
                   \/ Is500(Response(r))
                        /\ FailedStep(r) \in {"ffmpeg", "load", "transcribe", "write"}
                   \/ Response(r).by = "framework" /\ FailedStep(r) = "save"
           ELSE req[r].responses = <<>> /\ ENABLED Step(r)

\* a valid upload whose result write failed, answered 500 by the handler
C2_Witness ==
    \E r \in Requests :
        /\ Valid(r) /\ Failed(r, "write")
        /\ Is500(Response(r))

\* C3: a failure of ffmpeg or of the model ends the request at that step and
\* reports the exception's message: ffmpeg failing gives 500 'audio
\* extraction failed' with the message in 'detail', the model is never asked
\* for and no result file exists for the job; a failing model load or
\* transcription gives 500 'transcription failed' with the message in 'detail'.
C3_FirstErrorIsReported ==
    \A r \in Requests :
        /\ Failed(r, "ffmpeg") =>
              /\ Len(req[r].responses) = 1
              /\ Is500With(Response(r), <<"audio extraction failed">>, req[r].exc)
              /\ ~Did(r, "get_model") /\ ~Did(r, "transcribe") /\ ~Did(r, "write")
              /\ ExpectedOut(r) \notin DOMAIN fs
        /\ (Failed(r, "load") \/ Failed(r, "transcribe")) =>
              /\ Len(req[r].responses) = 1
              /\ Is500With(Response(r), <<"transcription failed">>, req[r].exc)
              /\ ~Did(r, "write")
              /\ ExpectedOut(r) \notin DOMAIN fs

\* ffmpeg failed with more than StderrLimit characters on stderr in one
\* request, the model load failed in another
C3_Witness ==
    \E r1, r2 \in Requests :
        /\ Failed(r1, "ffmpeg")
        /\ Len(Response(r1).body.detail) = 1 + StderrLimit
        /\ Response(r1).body.detail[1] = "ffmpeg failed: "
        /\ Failed(r2, "load")
        /\ Response(r2).body.detail = <<"model load error">>

\* C4 as stated: over any interleaving of upload requests WhisperModel is
\* constructed at most once, and all requests that got a model handle from
\* get_model got the same one.
C4_Original ==
    /\ constructed <= 1
    /\ \A r1, r2 \in Requests :
          (req[r1].model # None /\ req[r2].model # None)
          => req[r1].model = req[r2].model

\* C5 as stated: the only file a finished request has added or changed is
\* RESULT_DIR/<job_id>.json.
C5_Original ==
    \A r \in Requests :
        Finished(r) => req[r].touched \subseteq {ExpectedOut(r)}

\* C5 amended: the files a request adds or changes are its saved upload
\* UPLOAD_DIR/<job_id><ext>, for a video upload the extracted audio
\* UPLOAD_DIR/<job_id>.wav, and the result RESULT_DIR/<job_id>.json, and
\* nothing else; a request answered 400 adds or changes no file; no file is
\* ever removed, so every file on disk is one of these.
C5_FilesOfARequest ==
    /\ \A r \in Requests :
          /\ ~Valid(r) => req[r].touched = {}
          /\ Valid(r) =>
                /\ req[r].touched \subseteq
                      {ExpectedSrc(r), ExpectedOut(r)}
                         \cup (IF VideoRequest(r) THEN {ExpectedWav(r)} ELSE {})
                /\ Did(r, "save") /\ ~Failed(r, "save") => ExpectedSrc(r) \in req[r].touched
                /\ ExpectedOut(r) \in req[r].touched => Did(r, "write")
    /\ DOMAIN fs = UNION {req[r].touched : r \in Requests}

\* a video upload answered 200 has left three files
C5_Witness ==
    \E r \in Requests :
        /\ Finished(r) /\ Is200(Response(r)) /\ VideoRequest(r)
        /\ req[r].touched = {ExpectedSrc(r), ExpectedWav(r), ExpectedOut(r)}
        /\ Cardinality(req[r].touched) = 3

\* C6: GET /healthz can be served in every state, answers {ok: true,
\* service: 'asr-backend'}, and changes neither _model nor the file system
\* nor any upload request.
C6_HealthzIsPure ==
    /\ [](/\ ENABLED Healthz
          /\ health \in {<<>>, <<[ok |-> TRUE, service |-> "asr-backend"]>>})
    /\ [][Healthz => /\ health' = <<[ok |-> TRUE, service |-> "asr-backend"]>>
                     /\ UNCHANGED <<_model, constructed, fs, req, issued>>]_vars

\* healthz has answered although the model load has failed and no model is
\* loaded
C6_Witness ==
    /\ health = <<[ok |-> TRUE, service |-> "asr-backend"]>>
    /\ _model = None
    /\ \E r \in Requests : Failed(r, "load")

\* the order of the steps of upload()
StepRank(step) ==
    CASE step = "validate" -> 1 [] step = "save" -> 2 [] step = "ffmpeg" -> 3
      [] step = "get_model" -> 4 [] step = "load" -> 5 [] step = "transcribe" -> 6
      [] step = "write" -> 7 [] OTHER -> 8

\* C7: the steps of one upload run in the order validate, save, extract,
\* transcribe, write, respond; ffmpeg runs exactly for the uploads whose
\* accepted extension is a video extension, and before the model is asked
\* for; a non-video upload is transcribed from the saved upload itself (a
\* video upload from the extracted audio); a 200 'done' is given only after
\* the result file was written.
C7_StepOrder ==
    \A r \in Requests :
        LET t == req[r].trace IN
        /\ \A i \in 1..(Len(t) - 1) : StepRank(t[i]) < StepRank(t[i + 1])
        /\ Did(r, "ffmpeg") => VideoRequest(r) /\ Did(r, "save")
        /\ Did(r, "get_model") => (Did(r, "ffmpeg") <=> VideoRequest(r))
        /\ Did(r, "transcribe") =>
              /\ Did(r, "get_model")
              /\ req[r].audio_path =
                    IF VideoRequest(r) THEN ExpectedWav(r) ELSE ExpectedSrc(r)
              /\ req[r].audio_path \in DOMAIN fs
              /\ fs[req[r].audio_path].complete
              /\ fs[req[r].audio_path].kind =
                    IF VideoRequest(r) THEN "audio" ELSE "upload"
        /\ (Finished(r) /\ Is200(Response(r))) =>
              /\ Did(r, "write")
              /\ ExpectedOut(r) \in DOMAIN fs
              /\ fs[ExpectedOut(r)].complete

\* a video upload has gone through every step, an audio upload has skipped
\* ffmpeg
C7_Witness ==
    \E r1, r2 \in Requests :
        /\ req[r1].trace = <<"validate", "save", "ffmpeg", "get_model",
                             "transcribe", "write", "respond">>
        /\ Is200(Response(r1))
        /\ req[r2].trace = <<"validate", "save", "get_model",
                             "transcribe", "write", "respond">>
        /\ Is200(Response(r2))

\* C8 as stated: the result file of a job exists exactly when the request
\* was answered 200 'done', and then holds the 'result' of the response.
C8_Original ==
    \A r \in Requests :
        (Valid(r) /\ Finished(r)) =>
           /\ ExpectedOut(r) \in DOMAIN fs <=> Is200(Response(r))
           /\ Is200(Response(r)) =>
                 /\ fs[ExpectedOut(r)].complete
                 /\ fs[ExpectedOut(r)].data = Response(r).body.result

\* C9: a failed model load answers 500 'transcription failed' and leaves
\* _model as it was (None, unless another request has stored a model
\* meanwhile); a request that finds _model None at line 23 goes on to
\* construct the model, whatever failed before; once _model is set it is
\* never None again.
C9_FailedLoadDoesNotPoison ==
    [][ /\ \A r \in Requests :
              (req[r].pc = "construct" /\ req'[r].pc = "done") =>
                  /\ _model' = _model
                  /\ Is500With(req'[r].responses[1], <<"transcription failed">>,
                               req'[r].exc)
        /\ \A r \in Requests :
              (req[r].pc = "get_model" /\ req'[r].pc # "get_model" /\ _model = None)
                  => req'[r].pc = "construct"
        /\ _model # None => _model' # None ]_vars

\* after one request's load failed, another request loaded the model and
\* was answered 200
C9_Witness ==
    \E r1, r2 \in Requests :
        /\ r1 < r2
        /\ Failed(r1, "load")
        /\ Finished(r2) /\ Is200(Response(r2))
        /\ _model = <<"WhisperModel", 1>>
        /\ constructed = 1

\* the paths request r writes or may write
JobPaths(r) ==
    {ExpectedSrc(r), ExpectedOut(r)}
        \cup (IF VideoRequest(r) THEN {ExpectedWav(r)} ELSE {})

\* C10: the upload, audio and result paths of two requests are all
\* different; the audio path of a video request differs from its upload
\* path; the paths in use are the ones the handler computed; and when ffmpeg
\* is about to run with -y its output path does not exist, so no file of any
\* request is overwritten.
C10_NoPathCollision ==
    /\ \A r1, r2 \in Requests :
          (r1 # r2 /\ Valid(r1) /\ Valid(r2)) => JobPaths(r1) \cap JobPaths(r2) = {}
    /\ \A r \in Requests :
          Valid(r) =>
             /\ req[r].src_path = ExpectedSrc(r)
             /\ VideoRequest(r) => ExpectedWav(r) # ExpectedSrc(r)
             /\ req[r].pc = "save" => req[r].src_path \notin DOMAIN fs
             /\ req[r].pc = "extract" =>
                   /\ WavPath(req[r]) = ExpectedWav(r)
                   /\ WavPath(req[r]) \notin DOMAIN fs
             /\ req[r].pc = "write" =>
                   /\ req[r].out_path = ExpectedOut(r)
                   /\ req[r].out_path \notin DOMAIN fs

\* two video uploads of the same filename are in flight, one has extracted
\* its audio and the other is about to
C10_Witness ==
    \E r1, r2 \in Requests :
        /\ r1 # r2
        /\ req[r1].file = req[r2].file
        /\ VideoRequest(r1) /\ VideoRequest(r2)
        /\ ExpectedWav(r1) \in DOMAIN fs
        /\ req[r2].pc = "extract"

=============================================================================
